---------------------------- MODULE Spec2Model ----------------------------
(***************************************************************************)
(* The room engine of the trivia-racing server (src/unnamed/part_000).     *)
(*                                                                         *)
(* State: the process-wide room registry `rooms` (Map<string, GameRoom>),  *)
(* the event loop's timers (`intervals`: live setInterval timers per room, *)
(* `timeouts`: pending setTimeout(() => this.next(), 400) callbacks per    *)
(* room), and two observation variables: `out`, the messages the handler   *)
(* that ran last emitted, and `last`, the event that handler served.       *)
(*                                                                         *)
(* Numbers.  speedBonus is a multiple of 0.8 = 4/5, so progress, push and  *)
(* speedBonus are kept in FIFTHS of a track unit (progress 500 = 100.0);   *)
(* score and streak are integers.  The values are the exact rationals:     *)
(* the IEEE-754 rounding of the JavaScript additions is not modelled.      *)
(*                                                                         *)
(* Timers.  Node gives no guarantee about the timing or relative order of  *)
(* timer callbacks, so a tick of a live interval and a pending timeout     *)
(* callback may run at any point between two handlers.                     *)
(***************************************************************************)
EXTENDS Integers, Sequences, FiniteSets, TLC

VARIABLES rooms, intervals, timeouts, out, last

vars == <<rooms, intervals, timeouts, out, last>>

---------------------------------------------------------------------------
(* Bounds of the model *)

\* player ids the id generator draws from: 1..MaxPlayers
MaxPlayers == 2
\* setTimeout callbacks that may be pending for one room
MaxPending == 2
\* clients submit a right answer only for a player whose score is below MaxScore
MaxScore == 100
\* clients answer at every AnswerStep-th second of a question's countdown
AnswerStep == 10
\* player ids and score cap of the quick race (RaceSpec)
RacePlayers == 4
RaceScore == 700
\* answers a player has given before the one that ScoreSpec scores
MaxAnswers == 2
\* choice indices submitted by clients: 0..MaxChoice
MaxChoice == 2
\* Math.floor(Math.random() * n) draws from 0..Min(n - 1, MaxRandom)
MaxRandom == 0
\* player ids of the two-room house (RoomsSpec): 1..RoomsPlayers
RoomsPlayers == 1
\* callbacks that the interval of room "b" runs during one question (RoomsSpec)
SideTicks == 1

---------------------------------------------------------------------------
(* Static content and constants of the program *)

QUESTIONS ==
  << [id |-> "q1", answerIndex |-> 1],
     [id |-> "q2", answerIndex |-> 2],
     [id |-> "q3", answerIndex |-> 2],
     [id |-> "q4", answerIndex |-> 1],
     [id |-> "q5", answerIndex |-> 0] >>

TRACK_LEN == 100
BASE_PUSH == 18
\* seconds on the clock of a fresh question (the literal 20 of the class)
QuestionTime == 20
\* the winners kept in finishedOrder (the literal 3 of answer and wire)
MaxFinished == 3

Max(a, b) == IF a >= b THEN a ELSE b
Min(a, b) == IF a <= b THEN a ELSE b

\* clamp(n, min, max) = Math.max(min, Math.min(max, n))
clamp(n, lo, hi) == Max(lo, Min(hi, n))

\* Math.round of the rational num/den (den > 0): halves round up
MathRound(num, den) == (2 * num + den) \div (2 * den)

PlayerIds == 1 .. MaxPlayers
Choices == 0 .. MaxChoice
RoomIds == {"main", "b"}
\* a request's roomId field: absent, or a string
NoRoomId == "undefined"


AVATARS == << "a0", "a1", "a2", "a3", "a4", "a5", "a6", "a7" >>
\* the fallback colour of the room:join handler
DefaultColor == "#00f6ff"

---------------------------------------------------------------------------
(* The room object *)

\* field initialisers of class GameRoom; `interval` is "undefined" until the
\* first setInterval, "active" while it holds the handle of a live timer and
\* "cleared" once that handle has been passed to clearInterval
NewRoom(id) ==
  [ id            |-> id,
    started       |-> FALSE,
    currentIndex  |-> 0,
    timeLeft      |-> QuestionTime,
    players       |-> << >>,
    finishedOrder |-> << >>,
    interval      |-> "undefined",
    answered      |-> {} ]

\* getRoom without `rooms.get(id) ||`: every lookup constructs the room
getRoom_fresh(id) == (id :> NewRoom(id)) @@ rooms

\* rooms.get(id) || (create, rooms.set(id, r)): the registry after the lookup
getRoom(id) ==
  IF id \in DOMAIN rooms THEN rooms ELSE rooms @@ (id :> NewRoom(id))

\* roomId || "main"
RoomIdOf(roomId) == IF roomId = NoRoomId \/ roomId = "" THEN "main" ELSE roomId

\* the value standing for null where a question is expected
NullQuestion == [id |-> "null", answerIndex |-> -1]

\* QUESTIONS[i] of the 0-based array, or null
QuestionAt(i) == IF i + 1 \in DOMAIN QUESTIONS THEN QUESTIONS[i + 1] ELSE NullQuestion

\* Array.prototype.slice(0, n)
slice(s, n) == SubSeq(s, 1, Min(n, Len(s)))

\* Array.prototype.includes
includes(s, x) == \E i \in DOMAIN s : s[i] = x

\* the snapshot; `players` is the Map itself (its iteration order is not modelled)
wire(r) ==
  [ started  |-> r.started,
    timeLeft |-> r.timeLeft,
    question |-> QuestionAt(r.currentIndex),
    players  |-> r.players,
    finished |-> slice(r.finishedOrder, MaxFinished) ]

\* this.io.to(this.id).emit("state:update", this.wire())
emitState(r) == [to |-> r.id, event |-> "state:update", data |-> wire(r)]

\* `if (this.interval) clearInterval(this.interval)`: the number of live
\* timers this stops (clearing a handle that was cleared before stops none)
cleared(r) == IF r.interval = "active" THEN 1 ELSE 0

clearInterval(r) ==
  [r EXCEPT !.interval = IF @ = "active" THEN "cleared" ELSE @]

---------------------------------------------------------------------------
(* Scoring (fifths of a track unit for speedBonus, push and progress) *)

\* Math.max(0, this.timeLeft - 5) * 0.8
speedBonus(timeLeft) == 4 * Max(0, timeLeft - 5)

\* BASE_PUSH + speedBonus + p.streak * 4
push(timeLeft, streak) == 5 * BASE_PUSH + speedBonus(timeLeft) + 5 * (streak * 4)

\* Math.round(100 + speedBonus * 5 + p.streak * 10)
scoreGain(timeLeft, streak) ==
  MathRound(5 * 100 + speedBonus(timeLeft) * 5 + 5 * (streak * 10), 5)

\* correct with `p.streak += 1` moved before the push and the score
correct_streakFirst(p, timeLeft) ==
  [p EXCEPT !.progress = clamp(@ + push(timeLeft, p.streak + 1), 0, 5 * TRACK_LEN),
            !.score    = @ + scoreGain(timeLeft, p.streak + 1),
            !.streak   = @ + 1]

\* correct without clamp
correct_noClamp(p, timeLeft) ==
  [p EXCEPT !.progress = @ + push(timeLeft, p.streak),
            !.score    = @ + scoreGain(timeLeft, p.streak),
            !.streak   = @ + 1]

\* the player after a correct answer
correct(p, timeLeft) ==
  [p EXCEPT !.progress = clamp(@ + push(timeLeft, p.streak), 0, 5 * TRACK_LEN),
            !.score    = @ + scoreGain(timeLeft, p.streak),
            !.streak   = @ + 1]

\* incorrect without `p.streak = 0`
incorrect_keepStreak(p) == p

\* the player after an incorrect answer
incorrect(p) == [p EXCEPT !.streak = 0]

\* finish without `!this.finishedOrder.includes(p.id)`
finish_noIncludes(finishedOrder, p) ==
  IF p.progress >= 5 * 100 /\ Len(finishedOrder) < MaxFinished
  THEN Append(finishedOrder, p.id)
  ELSE finishedOrder

\* finishedOrder after player p's correct answer
finish(finishedOrder, p) ==
  IF /\ p.progress >= 5 * 100
     /\ ~ includes(finishedOrder, p.id)
     /\ Len(finishedOrder) < MaxFinished
  THEN Append(finishedOrder, p.id)
  ELSE finishedOrder

\* Math.max(0, this.timeLeft - 1)
countdown(timeLeft) == Max(0, timeLeft - 1)

---------------------------------------------------------------------------
(* The methods of GameRoom.  Each one is the whole method, run on the room *)
(* `id` of the registry as the handler's getRoom lookup left it; it sets   *)
(* rooms', intervals' and out' (the messages emitted), and the caller sets *)
(* timeouts' and last'.                                                    *)

\* the Player object literal of join
NewPlayer(socketId, name, color, newId, rndName, rndAvatar) ==
  [ id       |-> newId,
    name     |-> IF name = "" THEN << "Racer-", rndName >> ELSE name,
    color    |-> color,
    avatar   |-> AVATARS[rndAvatar + 1],
    progress |-> 0,
    score    |-> 0,
    streak   |-> 0,
    socketId |-> socketId ]

join(id, socketId, name, color, newId, rndName, rndAvatar) ==
  LET R == getRoom(id)
      r == R[id]
      player == NewPlayer(socketId, name, color, newId, rndName, rndAvatar)
      r2 == [r EXCEPT !.players = (newId :> player) @@ @]
  IN  /\ rooms' = [R EXCEPT ![id] = r2]
      /\ out' = << emitState(r2),
                   [to |-> socketId, event |-> "room:joined", data |-> [player |-> player]] >>
      /\ UNCHANGED intervals

\* start without `if (this.started) return`
start_noGuard(id) ==
  LET R == getRoom(id)
      r2 == [R[id] EXCEPT !.started = TRUE,
                          !.currentIndex = 0,
                          !.timeLeft = QuestionTime,
                          !.finishedOrder = << >>,
                          !.answered = {},
                          !.interval = "active"]
  IN  /\ rooms' = [R EXCEPT ![id] = r2]
      /\ intervals' = [intervals EXCEPT ![id] = @ + 1]
      /\ out' = << emitState(r2) >>

\* start that also zeroes the players' marks, as reset does
start_zeroMarks(id) ==
  LET R == getRoom(id)
      r == R[id]
      r2 == [r EXCEPT !.started = TRUE,
                      !.currentIndex = 0,
                      !.timeLeft = QuestionTime,
                      !.finishedOrder = << >>,
                      !.answered = {},
                      !.players = [k \in DOMAIN @ |->
                                     [@[k] EXCEPT !.progress = 0, !.score = 0, !.streak = 0]],
                      !.interval = "active"]
  IN  IF r.started
      THEN /\ rooms' = R
           /\ out' = << >>
           /\ UNCHANGED intervals
      ELSE /\ rooms' = [R EXCEPT ![id] = r2]
           /\ intervals' = [intervals EXCEPT ![id] = @ + 1]
           /\ out' = << emitState(r2) >>

start(id) ==
  LET R == getRoom(id)
      r == R[id]
      r2 == [r EXCEPT !.started = TRUE,
                      !.currentIndex = 0,
                      !.timeLeft = QuestionTime,
                      !.finishedOrder = << >>,
                      !.answered = {},
                      !.interval = "active"]
  IN  IF r.started
      THEN /\ rooms' = R
           /\ out' = << >>
           /\ UNCHANGED intervals
      ELSE /\ rooms' = [R EXCEPT ![id] = r2]
           /\ intervals' = [intervals EXCEPT ![id] = @ + 1]
           /\ out' = << emitState(r2) >>

\* reset without `if (this.interval) clearInterval(this.interval)`
reset_noClear(id) ==
  LET R == getRoom(id)
      r2 == [R[id] EXCEPT !.started = FALSE,
                          !.currentIndex = 0,
                          !.timeLeft = QuestionTime,
                          !.finishedOrder = << >>,
                          !.answered = {},
                          !.players = [k \in DOMAIN @ |->
                                         [@[k] EXCEPT !.progress = 0, !.score = 0, !.streak = 0]]]
  IN  /\ rooms' = [R EXCEPT ![id] = r2]
      /\ out' = << emitState(r2) >>
      /\ UNCHANGED intervals

reset(id) ==
  LET R == getRoom(id)
      r == R[id]
      r2 == [r EXCEPT !.started = FALSE,
                      !.currentIndex = 0,
                      !.timeLeft = QuestionTime,
                      !.finishedOrder = << >>,
                      !.answered = {},
                      !.players = [k \in DOMAIN @ |->
                                     [@[k] EXCEPT !.progress = 0, !.score = 0, !.streak = 0]]]
      r3 == clearInterval(r2)
  IN  /\ rooms' = [R EXCEPT ![id] = r3]
      /\ intervals' = [intervals EXCEPT ![id] = @ - cleared(r)]
      /\ out' = << emitState(r3) >>

\* next with the test `this.currentIndex < QUESTIONS.length`
next_pastLast(id) ==
  LET R == getRoom(id)
      r == R[id]
      advanced == [r EXCEPT !.currentIndex = @ + 1,
                            !.timeLeft = QuestionTime,
                            !.answered = {}]
      ended == clearInterval([r EXCEPT !.started = FALSE])
  IN  IF r.currentIndex < Len(QUESTIONS)
      THEN /\ rooms' = [R EXCEPT ![id] = advanced]
           /\ out' = << emitState(advanced) >>
           /\ UNCHANGED intervals
      ELSE /\ rooms' = [R EXCEPT ![id] = ended]
           /\ intervals' = [intervals EXCEPT ![id] = @ - cleared(r)]
           /\ out' = << emitState(ended) >>

\* next without `if (this.interval) clearInterval(this.interval)`
next_noClear(id) ==
  LET R == getRoom(id)
      r == R[id]
      advanced == [r EXCEPT !.currentIndex = @ + 1,
                            !.timeLeft = QuestionTime,
                            !.answered = {}]
      ended == [r EXCEPT !.started = FALSE]
  IN  IF r.currentIndex < Len(QUESTIONS) - 1
      THEN /\ rooms' = [R EXCEPT ![id] = advanced]
           /\ out' = << emitState(advanced) >>
           /\ UNCHANGED intervals
      ELSE /\ rooms' = [R EXCEPT ![id] = ended]
           /\ out' = << emitState(ended) >>
           /\ UNCHANGED intervals

\* next whose last question is followed by the first one again
next_wraps(id) ==
  LET R == getRoom(id)
      r == R[id]
      advanced == [r EXCEPT !.currentIndex = (@ + 1) % Len(QUESTIONS),
                            !.timeLeft = QuestionTime,
                            !.answered = {}]
  IN  /\ rooms' = [R EXCEPT ![id] = advanced]
      /\ out' = << emitState(advanced) >>
      /\ UNCHANGED intervals

\* next without `this.answered.clear()`
next_keepAnswered(id) ==
  LET R == getRoom(id)
      r == R[id]
      advanced == [r EXCEPT !.currentIndex = @ + 1,
                            !.timeLeft = QuestionTime]
      ended == clearInterval([r EXCEPT !.started = FALSE])
  IN  IF r.currentIndex < Len(QUESTIONS) - 1
      THEN /\ rooms' = [R EXCEPT ![id] = advanced]
           /\ out' = << emitState(advanced) >>
           /\ UNCHANGED intervals
      ELSE /\ rooms' = [R EXCEPT ![id] = ended]
           /\ intervals' = [intervals EXCEPT ![id] = @ - cleared(r)]
           /\ out' = << emitState(ended) >>

next(id) ==
  LET R == getRoom(id)
      r == R[id]
      advanced == [r EXCEPT !.currentIndex = @ + 1,
                            !.timeLeft = QuestionTime,
                            !.answered = {}]
      ended == clearInterval([r EXCEPT !.started = FALSE])
  IN  IF r.currentIndex < Len(QUESTIONS) - 1
      THEN /\ rooms' = [R EXCEPT ![id] = advanced]
           /\ out' = << emitState(advanced) >>
           /\ UNCHANGED intervals
      ELSE /\ rooms' = [R EXCEPT ![id] = ended]
           /\ intervals' = [intervals EXCEPT ![id] = @ - cleared(r)]
           /\ out' = << emitState(ended) >>

\* ignored without the test `this.answered.has(playerId)`
ignored_noAnswered(r, playerId) ==
  \/ ~ r.started
  \/ QuestionAt(r.currentIndex) = NullQuestion
  \/ playerId \notin DOMAIN r.players

\* the four early returns of answer
ignored(r, playerId) ==
  \/ ~ r.started
  \/ QuestionAt(r.currentIndex) = NullQuestion
  \/ playerId \in r.answered
  \/ playerId \notin DOMAIN r.players

answer(id, playerId, choiceIndex) ==
  LET R == getRoom(id)
      r == R[id]
      q == QuestionAt(r.currentIndex)
  IN  IF ignored(r, playerId)
      THEN /\ rooms' = R
           /\ out' = << >>
           /\ UNCHANGED intervals
      ELSE LET p == r.players[playerId]
               isCorrect == choiceIndex = q.answerIndex
               p2 == IF isCorrect THEN correct(p, r.timeLeft) ELSE incorrect(p)
               r2 == [r EXCEPT !.answered = @ \cup {playerId},
                               !.players[playerId] = p2,
                               !.finishedOrder = IF isCorrect THEN finish(@, p2) ELSE @]
           IN  /\ rooms' = [R EXCEPT ![id] = r2]
               /\ out' = << emitState(r2) >>
               /\ UNCHANGED intervals

\* tick without `if (this.timeLeft === 0) setTimeout(() => this.next(), 400)`
tick_noAdvance(id) ==
  LET r == rooms[id]
      r2 == [r EXCEPT !.timeLeft = countdown(@)]
  IN  IF ~ r.started
      THEN /\ out' = << >>
           /\ UNCHANGED <<rooms, timeouts>>
      ELSE /\ rooms' = [rooms EXCEPT ![id] = r2]
           /\ out' = << emitState(r2) >>
           /\ UNCHANGED timeouts

\* tick with `this.emitState()` moved before the countdown's assignment
tick_emitFirst(id) ==
  LET r == rooms[id]
      r2 == [r EXCEPT !.timeLeft = countdown(@)]
  IN  IF ~ r.started
      THEN /\ out' = << >>
           /\ UNCHANGED <<rooms, timeouts>>
      ELSE /\ rooms' = [rooms EXCEPT ![id] = r2]
           /\ out' = << emitState(r) >>
           /\ timeouts' = [timeouts EXCEPT ![id] = IF r2.timeLeft = 0 THEN @ + 1 ELSE @]

\* tick also sets timeouts': setTimeout(() => this.next(), 400)
tick(id) ==
  LET r == rooms[id]
      r2 == [r EXCEPT !.timeLeft = countdown(@)]
  IN  IF ~ r.started
      THEN /\ out' = << >>
           /\ UNCHANGED <<rooms, timeouts>>
      ELSE /\ rooms' = [rooms EXCEPT ![id] = r2]
           /\ out' = << emitState(r2) >>
           /\ timeouts' = [timeouts EXCEPT ![id] = IF r2.timeLeft = 0 THEN @ + 1 ELSE @]

---------------------------------------------------------------------------
(* The events: the socket handlers and the two timer callbacks *)

Event(op, room, playerId) == [op |-> op, room |-> room, playerId |-> playerId]

\* Math.floor(Math.random() * n)
Random(n) == 0 .. Min(n - 1, MaxRandom)

\* socket.on("room:join")
OnJoin(socketId, roomId, name, color, newId) ==
  \E rndName \in Random(99), rndAvatar \in Random(Len(AVATARS)) :
    /\ join(RoomIdOf(roomId), socketId, name,
            IF color = "" THEN DefaultColor ELSE color, newId, rndName, rndAvatar)
    /\ UNCHANGED timeouts
    /\ last' = Event("join", RoomIdOf(roomId), newId)

\* socket.on("race:start")
OnStart(roomId) ==
  /\ start(RoomIdOf(roomId))
  /\ UNCHANGED timeouts
  /\ last' = Event("start", RoomIdOf(roomId), 0)

\* socket.on("race:next")
OnNext(roomId) ==
  /\ next(RoomIdOf(roomId))
  /\ UNCHANGED timeouts
  /\ last' = Event("next", RoomIdOf(roomId), 0)

\* socket.on("race:reset")
OnReset(roomId) ==
  /\ reset(RoomIdOf(roomId))
  /\ UNCHANGED timeouts
  /\ last' = Event("reset", RoomIdOf(roomId), 0)

\* socket.on("answer:submit")
OnAnswer(roomId, playerId, choiceIndex) ==
  /\ answer(RoomIdOf(roomId), playerId, choiceIndex)
  /\ UNCHANGED timeouts
  /\ last' = Event("answer", RoomIdOf(roomId), playerId)

\* a callback of setInterval(() => this.tick(), 1000)
Tick(id) ==
  /\ id \in DOMAIN rooms
  /\ intervals[id] > 0
  /\ countdown(rooms[id].timeLeft) = 0 => timeouts[id] < MaxPending
  /\ tick(id)
  /\ UNCHANGED intervals
  /\ last' = Event("tick", id, 0)

\* a callback of setTimeout(() => this.next(), 400)
AutoAdvance(id) ==
  /\ id \in DOMAIN rooms
  /\ timeouts[id] > 0
  /\ next(id)
  /\ timeouts' = [timeouts EXCEPT ![id] = @ - 1]
  /\ last' = Event("timeout", id, 0)

---------------------------------------------------------------------------
(* The clients *)

\* the room a request reaches, as it is before the handler's lookup
RoomNow(roomId) ==
  IF RoomIdOf(roomId) \in DOMAIN rooms
  THEN rooms[RoomIdOf(roomId)]
  ELSE NewRoom(RoomIdOf(roomId))

\* whether the choice is the right one for the question the room is at
IsCorrectNow(roomId, choiceIndex) ==
  choiceIndex = QuestionAt(RoomNow(roomId).currentIndex).answerIndex

\* clients answer at every AnswerStep-th second of the countdown
AnswerTime(roomId) == (QuestionTime - RoomNow(roomId).timeLeft) % AnswerStep = 0

\* clients submit a right answer only for a player whose score is below maxScore
Capped(roomId, playerId, choiceIndex, maxScore) ==
  (/\ IsCorrectNow(roomId, choiceIndex)
   /\ playerId \in DOMAIN RoomNow(roomId).players)
    => RoomNow(roomId).players[playerId].score < maxScore

---------------------------------------------------------------------------
(* One room: every request names the default room *)

Sockets == {"s1"}
Names == {""}
Colors == {""}
MainRoom == {NoRoomId, "main"}

Init ==
  /\ rooms = << >>
  /\ intervals = [id \in RoomIds |-> 0]
  /\ timeouts = [id \in RoomIds |-> 0]
  /\ out = << >>
  /\ last = Event("boot", "", 0)

Next ==
  \/ \E s \in Sockets, roomId \in MainRoom, n \in Names, c \in Colors, newId \in PlayerIds :
        OnJoin(s, roomId, n, c, newId)
  \/ \E roomId \in MainRoom : OnStart(roomId)
  \/ \E roomId \in MainRoom : OnNext(roomId)
  \/ \E roomId \in MainRoom : OnReset(roomId)
  \/ \E roomId \in MainRoom, p \in PlayerIds, c \in Choices :
        (/\ AnswerTime(roomId)
         /\ Capped(roomId, p, c, MaxScore)
         /\ OnAnswer(roomId, p, c))
  \/ \E id \in RoomIds : Tick(id)
  \/ \E id \in RoomIds : AutoAdvance(id)

Spec == Init /\ [][Next]_vars

---------------------------------------------------------------------------
(* The quick race: more players; they join an idle room one after the     *)
(* other, every answer submitted is the right one, and every request      *)
(* arrives before the interval timer's first callback, so that no timer   *)
(* callback runs                                                           *)

RaceIds == 1 .. RacePlayers

\* the id generator hands out 1, 2, ... to the players joining an idle room
Lobby(id, newId) ==
  IF id \in DOMAIN rooms
  THEN ~ rooms[id].started /\ newId = Cardinality(DOMAIN rooms[id].players) + 1
  ELSE newId = 1

NextRace ==
  \/ \E s \in Sockets, roomId \in MainRoom, n \in Names, c \in Colors, newId \in RaceIds :
        Lobby(RoomIdOf(roomId), newId) /\ OnJoin(s, roomId, n, c, newId)
  \/ \E roomId \in MainRoom : OnStart(roomId)
  \/ \E roomId \in MainRoom : OnNext(roomId)
  \/ \E roomId \in MainRoom : OnReset(roomId)
  \/ \E roomId \in MainRoom, p \in RaceIds, c \in Choices :
        (/\ IsCorrectNow(roomId, c)
         /\ Capped(roomId, p, c, RaceScore)
         /\ OnAnswer(roomId, p, c))

RaceSpec == Init /\ [][NextRace]_vars

---------------------------------------------------------------------------
(* Scoring one answer: a running room at any question and any second of   *)
(* the countdown, whose player has answered up to MaxAnswers questions of  *)
(* earlier rounds, at any second and rightly or not                        *)

RECURSIVE Trained(_)
Trained(k) ==
  IF k = 0
  THEN { NewPlayer("s1", "", DefaultColor, 1, 0, 0) }
  ELSE LET before == Trained(k - 1)
       IN  before \cup { correct(p, t) : p \in before, t \in 0 .. QuestionTime }
                  \cup { incorrect(p) : p \in before }

InitScore ==
  \E p \in Trained(MaxAnswers), t \in 0 .. QuestionTime, i \in 0 .. Len(QUESTIONS) - 1 :
    LET r == [NewRoom("main") EXCEPT !.started = TRUE,
                                     !.currentIndex = i,
                                     !.timeLeft = t,
                                     !.players = (1 :> p),
                                     !.interval = "active"]
    IN  /\ rooms = ("main" :> r)
        /\ intervals = [id \in RoomIds |-> IF id = "main" THEN 1 ELSE 0]
        /\ timeouts = [id \in RoomIds |-> IF id = "main" /\ t = 0 THEN 1 ELSE 0]
        /\ out = << emitState(r) >>
        /\ last = Event(IF t < QuestionTime THEN "tick" ELSE IF i > 0 THEN "next" ELSE "start",
                        "main", 0)

NextScore == \E c \in Choices : OnAnswer(NoRoomId, 1, c)

ScoreSpec == InitScore /\ [][NextScore]_vars

---------------------------------------------------------------------------
(* Two rooms: requests name the default room or room "b".  Timer callbacks *)
(* run in the order of their due times (a pending advance, due after 400   *)
(* ms, runs before the interval's next callback); the clients of "main"    *)
(* send their requests at the start of a question or once its countdown    *)
(* has expired, the clients of "b" within the first SideTicks seconds of a *)
(* question, which they skip or reset before the next second               *)

AnyRoom == {NoRoomId, "main", "b"}
RoomsIds == 1 .. RoomsPlayers

\* when the clients of a room send a request
Prompt(roomId) ==
  \/ RoomNow(roomId).timeLeft = QuestionTime
  \/ RoomNow(roomId).timeLeft = 0
  \/ RoomIdOf(roomId) = "b" /\ RoomNow(roomId).timeLeft >= QuestionTime - SideTicks

\* when the interval's callback of a room runs
Due(id) ==
  /\ timeouts[id] = 0
  /\ id = "b" => rooms[id].timeLeft > QuestionTime - SideTicks

NextRooms ==
  \/ \E s \in Sockets, roomId \in AnyRoom, n \in Names, c \in Colors, newId \in RoomsIds :
        Prompt(roomId) /\ OnJoin(s, roomId, n, c, newId)
  \/ \E roomId \in AnyRoom : Prompt(roomId) /\ OnStart(roomId)
  \/ \E roomId \in AnyRoom : Prompt(roomId) /\ OnNext(roomId)
  \/ \E roomId \in AnyRoom : Prompt(roomId) /\ OnReset(roomId)
  \/ \E roomId \in AnyRoom, p \in RoomsIds, c \in Choices :
        (/\ RoomNow(roomId).timeLeft = QuestionTime
         /\ Capped(roomId, p, c, MaxScore)
         /\ OnAnswer(roomId, p, c))
  \/ \E id \in RoomIds : Tick(id) /\ Due(id)
  \/ \E id \in RoomIds : AutoAdvance(id)

RoomsSpec == Init /\ [][NextRooms]_vars

---------------------------------------------------------------------------
(* One player to the finish: one room and one player id, whose clients     *)
(* send their requests at the start of a question or once its countdown    *)
(* has expired and answer, rightly or not, at the start of a question,     *)
(* until the score reaches RaceScore; timer callbacks run in any order     *)

NextSolo ==
  \/ \E s \in Sockets, roomId \in MainRoom, n \in Names, c \in Colors, newId \in RoomsIds :
        Prompt(roomId) /\ OnJoin(s, roomId, n, c, newId)
  \/ \E roomId \in MainRoom : Prompt(roomId) /\ OnStart(roomId)
  \/ \E roomId \in MainRoom : Prompt(roomId) /\ OnNext(roomId)
  \/ \E roomId \in MainRoom : Prompt(roomId) /\ OnReset(roomId)
  \/ \E roomId \in MainRoom, p \in RoomsIds, c \in Choices :
        (/\ RoomNow(roomId).timeLeft = QuestionTime
         /\ Capped(roomId, p, c, RaceScore)
         /\ OnAnswer(roomId, p, c))
  \/ \E id \in RoomIds : Tick(id)
  \/ \E id \in RoomIds : AutoAdvance(id)

SoloSpec == Init /\ [][NextSolo]_vars

---------------------------------------------------------------------------
(* A round left to its timers: room "main" is running at any question and  *)
(* any second of the countdown, with up to MaxPending advances pending (at *)
(* countdown 0 the one that the tick reaching 0 scheduled is among them),  *)
(* and no request arrives any more.  The event loop runs the callback of a *)
(* live interval again and again and every pending timeout callback in the *)
(* end: weak fairness of both                                              *)

InitRound ==
  \E i \in 0 .. Len(QUESTIONS) - 1, t \in 0 .. QuestionTime, n \in 0 .. MaxPending :
    LET r == [NewRoom("main") EXCEPT !.started = TRUE,
                                     !.currentIndex = i,
                                     !.timeLeft = t,
                                     !.players = (1 :> NewPlayer("s1", "", DefaultColor, 1, 0, 0)),
                                     !.interval = "active"]
    IN  /\ t = 0 => n >= 1
        /\ rooms = ("main" :> r)
        /\ intervals = [id \in RoomIds |-> IF id = "main" THEN 1 ELSE 0]
        /\ timeouts = [id \in RoomIds |-> IF id = "main" THEN n ELSE 0]
        /\ out = << emitState(r) >>
        /\ last = Event(IF t < QuestionTime THEN "tick" ELSE IF i > 0 THEN "next" ELSE "start",
                        "main", 0)

NextRound ==
  \/ \E id \in RoomIds : Tick(id)
  \/ \E id \in RoomIds : AutoAdvance(id)

RoundSpec ==
  /\ InitRound
  /\ [][NextRound]_vars
  /\ \A id \in RoomIds : WF_vars(Tick(id)) /\ WF_vars(AutoAdvance(id))

---------------------------------------------------------------------------
(* Properties *)

\* the ids of a sequence
Range(s) == {s[i] : i \in DOMAIN s}

\* the players of room r whose progress is 100
AtFinish(r) == {k \in DOMAIN r.players : r.players[k].progress = 500}

(* C1: in every reachable state of every room the finish-order list holds  *)
(* at most 3 ids and no id twice, however many players are at progress 100 *)
FinishOrderBounded ==
  \A id \in DOMAIN rooms :
    LET f == rooms[id].finishedOrder
    IN  /\ Len(f) <= 3
        /\ \A i, j \in DOMAIN f : i # j => f[i] # f[j]

\* a fourth player has just reached progress 100 and is not in the full list
FourthFinisherLeftOut ==
  \E id \in DOMAIN rooms :
    LET r == rooms[id]
    IN  /\ last = Event("answer", id, last.playerId)
        /\ out # << >>
        /\ Len(r.finishedOrder) = 3
        /\ last.playerId \in AtFinish(r) \ Range(r.finishedOrder)
        /\ Cardinality(AtFinish(r)) >= 4

\* the fields of a player that an answer scores
Marks(p) == << p.progress, p.score, p.streak >>

(* C2: answer() is a no-op (no player's progress, score or streak, nor the *)
(* answered-set or the finish-order changes, and nothing is broadcast)     *)
(* when the room is not started, the player id is unknown or the player    *)
(* has answered the current question; so an answer changes a player's      *)
(* marks only if the player was not in the answered-set and is in it       *)
(* afterwards, and ids leave the answered-set only when the question       *)
(* changes (next, the timer's advance, start, reset)                       *)
RejectedAnswerIsNoOp ==
  [][ /\ \A roomId \in MainRoom, p \in PlayerIds, c \in Choices :
           LET r == RoomNow(roomId)
               id == RoomIdOf(roomId)
           IN  (last'.op = "answer" /\ OnAnswer(roomId, p, c)) =>
                 /\ (~ r.started \/ p \notin DOMAIN r.players \/ p \in r.answered) =>
                       /\ rooms'[id].players = r.players
                       /\ rooms'[id].answered = r.answered
                       /\ rooms'[id].finishedOrder = r.finishedOrder
                       /\ out' = << >>
                 /\ (\E k \in DOMAIN r.players :
                        Marks(rooms'[id].players[k]) # Marks(r.players[k])) =>
                       /\ p \notin r.answered
                       /\ p \in rooms'[id].answered
      /\ \A id \in DOMAIN rooms :
           ~ (rooms[id].answered \subseteq rooms'[id].answered) =>
               last'.op \in {"next", "timeout", "start", "reset"}
    ]_vars

\* a known player's second answer to the question of a running room was dropped
SecondAnswerDropped ==
  \E id \in DOMAIN rooms :
    /\ last = Event("answer", id, last.playerId)
    /\ out = << >>
    /\ rooms[id].started
    /\ last.playerId \in DOMAIN rooms[id].players
    /\ last.playerId \in rooms[id].answered

(* C3: an accepted correct answer of a player with streak s and progress  *)
(* p at countdown t, with speedBonus = max(0, t - 5) * 0.8, sets progress   *)
(* to min(100, p + 18 + speedBonus + 4 s), adds round(100 + 5 speedBonus + *)
(* 10 s) to the score and sets the streak to s + 1; s = 0 and t = 20 give   *)
(* +30, +160 and streak 1.  Progress and speedBonus are in fifths; g is the *)
(* rounding of x/5 when 2x - 5 < 10g <= 2x + 5                              *)
CorrectAnswerScores ==
  [][ \A c \in Choices :
        LET r == RoomNow(NoRoomId)
            p == r.players[1]
            t == r.timeLeft
            s == p.streak
            bonus == IF t > 5 THEN 4 * (t - 5) ELSE 0
            q == rooms'["main"].players[1]
            g == q.score - p.score
            x == 500 + 5 * bonus + 50 * s
        IN  (/\ OnAnswer(NoRoomId, 1, c)
             /\ r.started
             /\ 1 \notin r.answered
             /\ c = QUESTIONS[r.currentIndex + 1].answerIndex) =>
              /\ q.progress = Min(500, p.progress + 90 + bonus + 20 * s)
              /\ 2 * x - 5 < 10 * g /\ 10 * g <= 2 * x + 5
              /\ q.streak = s + 1
              /\ (s = 0 /\ t = 20) =>
                    /\ q.progress = Min(500, p.progress + 150)
                    /\ g = 160
                    /\ q.streak = 1
    ]_vars

\* the example: a first correct answer at countdown 20 gave 30, 160 and streak 1
FirstAnswerAtTwenty ==
  /\ last = Event("answer", "main", 1)
  /\ out # << >>
  /\ rooms["main"].timeLeft = 20
  /\ Marks(rooms["main"].players[1]) = << 150, 160, 1 >>

(* C4: an accepted incorrect answer (running room, known player who has   *)
(* not answered the question, a choice other than the correct index) sets  *)
(* the player's streak to 0, keeps the player's progress and score, the    *)
(* finish-order and every other player, and adds the player to the         *)
(* answered-set                                                            *)
IncorrectAnswerResetsStreak ==
  [][ \A roomId \in MainRoom, p \in PlayerIds, c \in Choices :
        LET r == RoomNow(roomId)
            id == RoomIdOf(roomId)
        IN  (/\ last'.op = "answer"
             /\ OnAnswer(roomId, p, c)
             /\ r.started
             /\ p \in DOMAIN r.players
             /\ p \notin r.answered
             /\ c # QUESTIONS[r.currentIndex + 1].answerIndex) =>
              /\ rooms'[id].players[p].streak = 0
              /\ rooms'[id].players[p].progress = r.players[p].progress
              /\ rooms'[id].players[p].score = r.players[p].score
              /\ rooms'[id].finishedOrder = r.finishedOrder
              /\ DOMAIN rooms'[id].players = DOMAIN r.players
              /\ \A k \in DOMAIN r.players \ {p} : rooms'[id].players[k] = r.players[k]
              /\ rooms'[id].answered = r.answered \cup {p}
    ]_vars

\* a player who had scored lost the streak by an accepted answer, next to a
\* player who keeps one
StreakLost ==
  \E id \in DOMAIN rooms :
    LET r == rooms[id]
    IN  /\ last = Event("answer", id, last.playerId)
        /\ out # << >>
        /\ last.playerId \in DOMAIN r.players
        /\ r.players[last.playerId].streak = 0
        /\ r.players[last.playerId].score > 0
        /\ \E k \in DOMAIN r.players : k # last.playerId /\ r.players[k].streak > 0

(* C5: whenever the question of a running room advances, by next() or by  *)
(* the timer's advance, every player who gave no answer to the question    *)
(* that ends has streak 0 afterwards                                       *)
MissedQuestionResetsStreak ==
  [][ \A id \in DOMAIN rooms :
        (/\ last'.op \in {"next", "timeout"}
         /\ last'.room = id
         /\ rooms[id].started
         /\ rooms'[id].currentIndex = rooms[id].currentIndex + 1) =>
          \A k \in DOMAIN rooms[id].players \ rooms[id].answered :
             rooms'[id].players[k].streak = 0
    ]_vars

\* the room a room id names, as it is before a handler's lookup
RoomOf(id) == IF id \in DOMAIN rooms THEN rooms[id] ELSE NewRoom(id)

(* C6: start() on an idle room gives started, question index 0, countdown *)
(* 20, an empty finish-order, an empty answered-set and one live interval  *)
(* timer; start() on a running room changes no field of the room, creates  *)
(* no timer and broadcasts nothing                                         *)
StartIsIdempotent ==
  [][ \A roomId \in MainRoom :
        LET id == RoomIdOf(roomId)
            r == RoomOf(id)
            r2 == rooms'[id]
        IN  (last'.op = "start" /\ OnStart(roomId)) =>
              IF r.started
              THEN /\ r2 = r
                   /\ intervals' = intervals
                   /\ timeouts' = timeouts
                   /\ out' = << >>
              ELSE /\ r2.started
                   /\ r2.currentIndex = 0
                   /\ r2.timeLeft = 20
                   /\ r2.finishedOrder = << >>
                   /\ r2.answered = {}
                   /\ r2.interval = "active"
                   /\ intervals'[id] = 1
    ]_vars

\* a start request reached a room in the middle of a question and was ignored
SecondStartIgnored ==
  \E id \in DOMAIN rooms :
    /\ last = Event("start", id, 0)
    /\ out = << >>
    /\ rooms[id].started
    /\ rooms[id].currentIndex > 0
    /\ rooms[id].timeLeft < 20
    /\ rooms[id].answered # {}

(* C7: next() at a question that is not the last adds 1 to the index, sets *)
(* the countdown to 20 and empties the answered-set, and keeps started,    *)
(* the players and the finish-order; next() at the last question sets      *)
(* started to false, leaves no live interval timer and keeps the index,    *)
(* which never passes the last valid index                                 *)
NextAdvancesOrEnds ==
  [][ \A id \in RoomIds :
        LET r == RoomOf(id)
            r2 == rooms'[id]
            lastIndex == 4
        IN  (/\ last'.op \in {"next", "timeout"}
             /\ \/ \E roomId \in MainRoom : RoomIdOf(roomId) = id /\ OnNext(roomId)
                \/ AutoAdvance(id)) =>
              /\ r2.currentIndex <= lastIndex
              /\ IF r.currentIndex # lastIndex
                 THEN /\ r2.currentIndex = r.currentIndex + 1
                      /\ r2.timeLeft = 20
                      /\ r2.answered = {}
                      /\ r2.started = r.started
                      /\ r2.players = r.players
                      /\ r2.finishedOrder = r.finishedOrder
                 ELSE /\ ~ r2.started
                      /\ intervals'[id] = 0
                      /\ r2.currentIndex = r.currentIndex
    ]_vars

\* the timer's advance ended the round at the last question
RoundEndedByTimer ==
  \E id \in DOMAIN rooms :
    /\ last = Event("timeout", id, 0)
    /\ ~ rooms[id].started
    /\ rooms[id].currentIndex = 4
    /\ rooms[id].timeLeft = 0
    /\ rooms[id].interval = "cleared"

(* C8: reset() leaves the room not started, at index 0 and countdown 20,   *)
(* with an empty finish-order and answered-set, every player's progress,   *)
(* score and streak 0 and no live interval timer, and keeps the players'   *)
(* ids, names, colors and avatars                                          *)
ResetRestoresLobby ==
  [][ \A roomId \in MainRoom :
        LET id == RoomIdOf(roomId)
            r == RoomOf(id)
            r2 == rooms'[id]
        IN  (last'.op = "reset" /\ OnReset(roomId)) =>
              /\ ~ r2.started
              /\ r2.currentIndex = 0
              /\ r2.timeLeft = 20
              /\ r2.finishedOrder = << >>
              /\ r2.answered = {}
              /\ intervals'[id] = 0
              /\ DOMAIN r2.players = DOMAIN r.players
              /\ \A k \in DOMAIN r.players :
                    /\ Marks(r2.players[k]) = << 0, 0, 0 >>
                    /\ r2.players[k].id = r.players[k].id
                    /\ r2.players[k].name = r.players[k].name
                    /\ r2.players[k].color = r.players[k].color
                    /\ r2.players[k].avatar = r.players[k].avatar
    ]_vars

\* reset() ran on a room whose timer had been started and whose countdown
\* had expired (the advance is still pending)
ResetAfterExpiry ==
  \E id \in DOMAIN rooms :
    /\ last = Event("reset", id, 0)
    /\ rooms[id].interval = "cleared"
    /\ timeouts[id] > 0
    /\ Cardinality(DOMAIN rooms[id].players) = 2

(* C9: tick() never makes the countdown negative, and a tick that finds    *)
(* the countdown of a running room at 0 already schedules no further       *)
(* advance                                                                 *)
TickAtZeroSchedulesNothing ==
  [][ \A id \in DOMAIN rooms :
        (last'.op = "tick" /\ Tick(id)) =>
          /\ rooms'[id].timeLeft >= 0
          /\ (rooms[id].started /\ rooms[id].timeLeft = 0) => timeouts'[id] = timeouts[id]
    ]_vars

(* C10: the interval timer of a room is live if and only if the room is    *)
(* started, and no room has two live interval timers                       *)
TimerIffStarted ==
  \A id \in RoomIds :
    /\ intervals[id] = IF id \in DOMAIN rooms /\ rooms[id].started THEN 1 ELSE 0
    /\ id \in DOMAIN rooms => (rooms[id].interval = "active" <=> rooms[id].started)

\* a finished round, not reset, was started again: one live timer
RestartedAfterFinish ==
  \E id \in DOMAIN rooms :
    /\ last = Event("start", id, 0)
    /\ out # << >>
    /\ intervals[id] = 1
    /\ \E k \in DOMAIN rooms[id].players : rooms[id].players[k].score > 0

(* C11: no timer callback changes an idle room: when the room is not       *)
(* started, neither a callback of the interval nor a callback of an        *)
(* advance scheduled earlier changes any field of the room, and none       *)
(* broadcasts a snapshot                                                   *)
IdleRoomIgnoresTimers ==
  [][ \A id \in DOMAIN rooms :
        (/\ last'.op \in {"tick", "timeout"}
         /\ last'.room = id
         /\ ~ rooms[id].started) =>
          /\ rooms'[id] = rooms[id]
          /\ out' = << >>
    ]_vars

(* C12: the ids join() hands out in a room are pairwise distinct: every    *)
(* join adds exactly one entry to the room's players and leaves every      *)
(* entry that was there as it was                                          *)
JoinAddsOnePlayer ==
  [][ \A id \in RoomIds :
        (last'.op = "join" /\ last'.room = id) =>
          /\ last'.playerId \notin DOMAIN RoomOf(id).players
          /\ Cardinality(DOMAIN rooms'[id].players)
               = Cardinality(DOMAIN RoomOf(id).players) + 1
          /\ \A k \in DOMAIN RoomOf(id).players :
                rooms'[id].players[k] = RoomOf(id).players[k]
    ]_vars

(* C13: every operation that changes a room's state (join, effective       *)
(* start, next, reset, accepted answer, tick while started, and any step   *)
(* at all that leaves a field of the room changed) broadcasts within the   *)
(* same handler a state:update to that room whose started, timeLeft,       *)
(* question, players and finished are those of the room after the          *)
(* operation, finished holding at most 3 ids                               *)
SnapshotAfterChange ==
  [][ \A id \in RoomIds :
        LET r == RoomOf(id)
            op == last'.op
            p == last'.playerId
        IN  (/\ last'.room = id
             /\ \/ rooms'[id] # r
                \/ op \in {"join", "next", "reset", "timeout"}
                \/ op = "start" /\ ~ r.started
                \/ op = "tick" /\ r.started
                \/ op = "answer" /\ r.started /\ p \in DOMAIN r.players /\ p \notin r.answered) =>
              \E i \in DOMAIN out' :
                 LET m == out'[i]
                     r2 == rooms'[id]
                 IN  /\ m.to = id
                     /\ m.event = "state:update"
                     /\ m.data.started = r2.started
                     /\ m.data.timeLeft = r2.timeLeft
                     /\ m.data.question = QUESTIONS[r2.currentIndex + 1]
                     /\ m.data.players = r2.players
                     /\ m.data.finished = r2.finishedOrder
                     /\ Len(m.data.finished) <= 3
    ]_vars

\* the interval's callback broadcast countdown 0 to a room with a scorer
ExpiryBroadcast ==
  \E id \in DOMAIN rooms :
    /\ last = Event("tick", id, 0)
    /\ Len(out) = 1
    /\ out[1].to = id
    /\ out[1].data.timeLeft = 0
    /\ rooms[id].timeLeft = 0
    /\ \E k \in DOMAIN rooms[id].players : out[1].data.players[k].score > 0

(* C14: rooms are isolated: an event of room A (join, start, next, reset,  *)
(* answer, tick or advance) leaves every field and timer of every other    *)
(* room as it was and sends its snapshots to A only; a lookup creates the  *)
(* room it names if it is missing and otherwise gives the room that is     *)
(* there (its players and its timer handle are those of earlier lookups);  *)
(* a request without a room id reaches room "main"                         *)
RoomsAreIsolated ==
  [][ LET A == last'.room
      IN  /\ \A B \in RoomIds \ {A} :
                /\ B \in DOMAIN rooms' <=> B \in DOMAIN rooms
                /\ B \in DOMAIN rooms => rooms'[B] = rooms[B]
                /\ intervals'[B] = intervals[B]
                /\ timeouts'[B] = timeouts[B]
          /\ \A i \in DOMAIN out' :
                out'[i].event = "state:update" => out'[i].to = A
          /\ DOMAIN rooms' = DOMAIN rooms \cup {A}
          /\ A \in DOMAIN rooms =>
                /\ DOMAIN rooms[A].players \subseteq DOMAIN rooms'[A].players
                /\ rooms[A].interval # "undefined" => rooms'[A].interval # "undefined"
          /\ \/ A = "main"
             \/ ~ \/ \E s \in Sockets, n \in Names, c \in Colors, newId \in RoomsIds :
                       OnJoin(s, NoRoomId, n, c, newId)
                  \/ OnStart(NoRoomId)
                  \/ OnNext(NoRoomId)
                  \/ OnReset(NoRoomId)
                  \/ \E p \in RoomsIds, c \in Choices : OnAnswer(NoRoomId, p, c)
    ]_vars

\* the advance scheduled in "main" ran beside a running room "b" that is
\* past its first question and has a scorer
AdvanceBesideBusyRoom ==
  /\ last = Event("timeout", "main", 0)
  /\ DOMAIN rooms = {"main", "b"}
  /\ rooms["main"].started
  /\ rooms["b"].started
  /\ rooms["b"].currentIndex > 0
  /\ rooms["b"].timeLeft < QuestionTime
  /\ \E k \in DOMAIN rooms["b"].players : rooms["b"].players[k].score > 0

(* C15: in every reachable state the countdown of every room is within     *)
(* [0, 20] and every player's progress is within [0, 100], the score a     *)
(* non-negative integer and the streak a non-negative integer              *)
MarksInRange ==
  \A id \in DOMAIN rooms :
    /\ rooms[id].timeLeft \in 0 .. 20
    /\ \A k \in DOMAIN rooms[id].players :
          LET p == rooms[id].players[k]
          IN  /\ p.progress \in 0 .. 5 * 100
              /\ p.score \in Nat
              /\ p.streak \in Nat

\* the interval's callback ran with the countdown at 0 and an advance
\* pending, in a room whose player stands at the clamp after a push past it
ClampedAtExpiry ==
  \E id \in DOMAIN rooms :
    /\ last = Event("tick", id, 0)
    /\ out # << >>
    /\ rooms[id].timeLeft = 0
    /\ timeouts[id] = 2
    /\ \E k \in DOMAIN rooms[id].players :
          /\ rooms[id].players[k].progress = 500
          /\ rooms[id].players[k].streak = 3

(* C16 as stated: across every transition of the room (join, start, next,  *)
(* reset, answer, tick, advance) no player's score is lower after it than  *)
(* before it                                                               *)
ScoreNeverDrops ==
  [][ \A id \in DOMAIN rooms : \A k \in DOMAIN rooms[id].players :
        /\ k \in DOMAIN rooms'[id].players
        /\ rooms'[id].players[k].score >= rooms[id].players[k].score
    ]_vars

(* C16 amended: no player leaves a room, and a player's score is not lower *)
(* after a start, next, answer, tick or advance than before it; reset()    *)
(* sets every score of its room to 0, and join() writes the entry of the   *)
(* id it generated with score 0 and keeps every other entry's score        *)
ScoreDropsOnlyToZero ==
  [][ \A id \in DOMAIN rooms : \A k \in DOMAIN rooms[id].players :
        LET before == rooms[id].players[k].score
            after == rooms'[id].players[k].score
        IN  /\ k \in DOMAIN rooms'[id].players
            /\ IF last'.room = id /\ last'.op = "reset"
               THEN after = 0
               ELSE IF last'.room = id /\ last'.op = "join" /\ last'.playerId = k
               THEN after = 0
               ELSE after >= before
    ]_vars

\* a finished round was started again and the player's score of that round
\* is still there
ScoreKeptByRestart ==
  \E id \in DOMAIN rooms :
    /\ last = Event("start", id, 0)
    /\ out # << >>
    /\ rooms[id].interval = "active"
    /\ \E k \in DOMAIN rooms[id].players : rooms[id].players[k].score >= RaceScore

(* C17: the answered-set holds ids of the room's players only; it is empty *)
(* right after every change of the current question (next() or the timer's *)
(* advance moving the index, an effective start(), reset()); so the answer *)
(* of a player of a running room who is not in the set is accepted, also   *)
(* when the player answered the question before                            *)
AnsweredSetTracksQuestion ==
  [][ \A id \in DOMAIN rooms' :
        LET r == RoomOf(id)
            r2 == rooms'[id]
            p == last'.playerId
        IN  /\ r2.answered \subseteq DOMAIN r2.players
            /\ r2.currentIndex # r.currentIndex => r2.answered = {}
            /\ (last'.room = id /\ last'.op = "reset") => r2.answered = {}
            /\ (last'.room = id /\ last'.op = "start" /\ ~ r.started) => r2.answered = {}
            /\ (/\ last'.room = id
                /\ last'.op = "answer"
                /\ r.started
                /\ p \in DOMAIN r.players
                /\ p \notin r.answered) =>
                  /\ r2.answered = r.answered \cup {p}
                  /\ out' # << >>
    ]_vars

\* past the first question both players are in the answered-set, and the
\* one whose answer was accepted last had scored on an earlier question
AnsweredAgain ==
  \E id \in DOMAIN rooms :
    LET r == rooms[id]
    IN  /\ last = Event("answer", id, last.playerId)
        /\ out # << >>
        /\ r.started
        /\ r.currentIndex > 0
        /\ r.answered = DOMAIN r.players
        /\ Cardinality(r.answered) = 2
        /\ r.players[last.playerId].score > 0
        /\ r.players[last.playerId].streak = 0

(* C18: started turns from false to true only by start(), and from true to *)
(* false only by reset() or by next() (requested, or run by the timer) at  *)
(* the last question index; while the room stays running, the question     *)
(* index never decreases and grows only by next(), by 1                    *)
LifecycleFollowsMachine ==
  [][ \A id \in DOMAIN rooms' :
        LET r == RoomOf(id)
            r2 == rooms'[id]
            op == last'.op
        IN  /\ (~ r.started /\ r2.started) => (last'.room = id /\ op = "start")
            /\ (r.started /\ ~ r2.started) =>
                  /\ last'.room = id
                  /\ \/ op = "reset"
                     \/ op \in {"next", "timeout"} /\ r.currentIndex = Len(QUESTIONS) - 1
            /\ (r.started /\ r2.started) =>
                  /\ r2.currentIndex \in {r.currentIndex, r.currentIndex + 1}
                  /\ r2.currentIndex # r.currentIndex =>
                        (last'.room = id /\ op \in {"next", "timeout"})
    ]_vars

\* a next request at the last question ended a round that had just reached it
RoundEndedByRequest ==
  \E id \in DOMAIN rooms :
    /\ last = Event("next", id, 0)
    /\ ~ rooms[id].started
    /\ rooms[id].currentIndex = Len(QUESTIONS) - 1
    /\ rooms[id].timeLeft = QuestionTime
    /\ rooms[id].interval = "cleared"
    /\ intervals[id] = 0

(* C19: a scheduled advance only advances the question whose countdown     *)
(* expired: when its callback changes the question index of a running room *)
(* (one that a next request has moved on meanwhile, or that was reset and  *)
(* started again), that question's countdown is at 0                       *)
AdvanceOnlyAfterExpiry ==
  [][ \A id \in DOMAIN rooms :
        (/\ last'.op = "timeout"
         /\ last'.room = id
         /\ rooms[id].started
         /\ rooms'[id].currentIndex # rooms[id].currentIndex) =>
          rooms[id].timeLeft = 0
    ]_vars

(* C20: the finish-order records the first up-to-three finishers in        *)
(* arrival order: every id in it is the id of a player whose progress is   *)
(* 100; its entries are never removed or reordered, except that start()    *)
(* and reset() clear it; and every player whose progress is 100 is in it   *)
(* unless it holds 3 ids already, also after a finished round was started  *)
(* again without reset()                                                   *)
FinishOrderIsFirstThree ==
  [][ \A id \in DOMAIN rooms' :
        LET f == RoomOf(id).finishedOrder
            r2 == rooms'[id]
            f2 == r2.finishedOrder
        IN  /\ Range(f2) \subseteq AtFinish(r2)
            /\ \/ Len(f) <= Len(f2) /\ SubSeq(f2, 1, Len(f)) = f
               \/ f2 = << >> /\ last'.room = id /\ last'.op \in {"start", "reset"}
            /\ AtFinish(r2) \subseteq Range(f2) \/ Len(f2) = 3
    ]_vars

(* C21: a started round always ends: when no request arrives any more and  *)
(* the interval's and the advances' callbacks are scheduled fairly, a      *)
(* running room reaches started = false with the question index at the     *)
(* last question, and on the way the index only ever grows by 1, so that   *)
(* every index up to the last is the current one at some point             *)
RoundAlwaysEnds ==
  /\ [][ rooms'["main"].currentIndex \in
           {rooms["main"].currentIndex, rooms["main"].currentIndex + 1} ]_vars
  /\ rooms["main"].started ~>
        (~ rooms["main"].started /\ rooms["main"].currentIndex = Len(QUESTIONS) - 1)

\* the last pending advance ended the round at the last question once its
\* countdown had run out; no timer is left
RoundRanOut ==
  /\ last = Event("timeout", "main", 0)
  /\ ~ rooms["main"].started
  /\ rooms["main"].currentIndex = Len(QUESTIONS) - 1
  /\ rooms["main"].timeLeft = 0
  /\ intervals["main"] = 0
  /\ timeouts["main"] = 0

============================================================================
